---- MODULE Spec2Model ----
(***************************************************************************)
(* arxiv_watcher (src/main.py): one run of the script.                     *)
(*                                                                         *)
(* The feed is a list of papers 1..n in feed order.  Every paper owns a    *)
(* lazily computed judgment cache (Paper.__interest_analysis) filled by    *)
(* the retried accessor Paper._interest_analysis.  The module-level loop   *)
(* filters and groups the papers, html_report sorts and writes them.       *)
(*                                                                         *)
(* The language-model client is the environment: for the paper being       *)
(* classified it fails on its first clientFails calls (the kind of each    *)
(* failure is free) and answers every later call with a well-formed        *)
(* response.  Paper.main_figure (a thumbnail lookup that touches no        *)
(* program state) is left out.                                             *)
(***************************************************************************)
EXTENDS Integers, Sequences, FiniteSets, TLC

\* Longest feed explored.
MaxPapers == 2

\* stop_after_attempt(5)
MaxAttempts == 5

\* paper.interest_score > 3
Threshold == 3

VARIABLES
    n,              \* len(papers): number of feed entries
    clientFails,    \* environment: failing calls before the first well-formed one
    reply,          \* environment: the client's latest response for the current paper
    cache,          \* cache[i]: Paper.__interest_analysis of paper i
    calls,          \* calls[i]: chat.completions.create calls made for paper i
    stores,         \* stores[i]: assignments of a parsed, non-null response to the cache
    ret,            \* ret[i]: last value _interest_analysis returned for paper i
    cur,            \* position of the for loop over papers
    pc,             \* program position
    site,           \* which read of _interest_analysis is in progress
    subj,           \* the paper whose _interest_analysis is in progress
    attempt,        \* tenacity attempt number of the read in progress
    err,            \* the exception that ended the run, "none" if none
    interesting,    \* defaultdict(list): sequence of [tag, papers] in insertion order
    fileOpen,       \* the output file has been created
    out,            \* what has been written to the output file
    sec,            \* html_report: position in interesting.items()
    sorted_papers,  \* html_report: sorted list of the current section
    k               \* html_report: position in sorted_papers

vars == <<n, clientFails, reply, cache, calls, stores, ret, cur, pc, site, subj,
          attempt, err, interesting, fileOpen, out, sec, sorted_papers, k>>

Papers == 1..MaxPapers

----------------------------------------------------------------------------
(* Values: model responses and parsed judgments.                           *)

AllKeys == {"score", "tag", "justification"}

Tags == {"time-series", "causality"}

\* A parsed JSON object: the keys it has, and the values of score and tag.
Obj(has, s, t) == [kind |-> "obj", has |-> has, score |-> s, tag |-> t]

\* Python None: the initial cache, also what json.loads("null") gives.
None == [kind |-> "None", has |-> {}, score |-> 0, tag |-> ""]

\* openai_client.chat.completions.create raises (transport, rate limit, timeout).
Transport == [kind |-> "transport", has |-> {}, score |-> 0, tag |-> ""]

\* The message text is not JSON: json.loads raises.
Garbage == [kind |-> "garbage", has |-> {}, score |-> 0, tag |-> ""]

\* The message text is the JSON literal null.
NullJson == [kind |-> "null", has |-> {}, score |-> 0, tag |-> ""]

\* Objects with all three keys and a score in 1..5.
WellFormedResponses == {Obj(AllKeys, s, t) : s \in {3, 4, 5}, t \in Tags}

\* Objects lacking a required key: {}, {"score": 5}, {"score": 5, "tag": ...}.
MissingKeyResponses ==
    {Obj({}, 0, ""), Obj({"score"}, 5, ""), Obj({"score", "tag"}, 5, "time-series")}

\* Objects with all three keys whose score is outside 1..5.
OutOfRangeResponses == {Obj(AllKeys, 6, t) : t \in Tags}

FailureResponses ==
    {Transport, Garbage, NullJson} \cup MissingKeyResponses \cup OutOfRangeResponses

\* What the client answers on call number c for the paper being classified.
ClientResponse(c) ==
    IF c <= clientFails THEN FailureResponses ELSE WellFormedResponses

\* json.loads(completion.choices[0].message.content)
Parse(r) == IF r.kind = "null" THEN None ELSE r

\* The three subscripts after the assignment: each raises KeyError when the
\* key is absent, and TypeError when the parsed value is None.
Validates(v) == v.kind = "obj" /\ AllKeys \subseteq v.has

\* if self.__interest_analysis is None
NeedsCallAlways(i) == TRUE

NeedsCall(i) == cache[i] = None

\* stop_after_attempt(5)
StopLate(a) == a > MaxAttempts

Stop(a) == a >= MaxAttempts

\* paper.interest_score > 3
PassesAtThreshold(s) == s >= Threshold

Passes(s) == s > Threshold

\* tag.capitalize()
Capitalize(t) ==
    CASE t = "time-series" -> "Time-series"
      [] t = "causality"   -> "Causality"
      [] OTHER             -> t

----------------------------------------------------------------------------
(* interesting[tag].append(paper) on a defaultdict(list).                  *)

HasKey(d, t) == \E j \in 1..Len(d) : d[j].tag = t

DictAppend(d, t, p) ==
    IF HasKey(d, t)
    THEN [j \in 1..Len(d) |->
            IF d[j].tag = t THEN [d[j] EXCEPT !.papers = Append(@, p)] ELSE d[j]]
    ELSE Append(d, [tag |-> t, papers |-> <<p>>])

----------------------------------------------------------------------------
(* sorted(papers, key=lambda paper: paper.interest_score, reverse=True):   *)
(* a stable sort, equal keys keep their order also under reverse=True.     *)

\* Insert p after every element whose key is >= the key of p.
RECURSIVE InsertDesc(_, _)
InsertDesc(s, p) ==
    IF s = <<>> THEN <<p>>
    ELSE IF cache[Head(s)].score >= cache[p].score
         THEN <<Head(s)>> \o InsertDesc(Tail(s), p)
         ELSE <<p>> \o s

\* Insert p after every element whose key is > the key of p.
RECURSIVE InsertDescUnstable(_, _)
InsertDescUnstable(s, p) ==
    IF s = <<>> THEN <<p>>
    ELSE IF cache[Head(s)].score > cache[p].score
         THEN <<Head(s)>> \o InsertDescUnstable(Tail(s), p)
         ELSE <<p>> \o s

RECURSIVE SortedUnstable(_)
SortedUnstable(s) ==
    IF s = <<>> THEN <<>>
    ELSE InsertDescUnstable(SortedUnstable(SubSeq(s, 1, Len(s) - 1)), s[Len(s)])

RECURSIVE Sorted(_)
Sorted(s) ==
    IF s = <<>> THEN <<>>
    ELSE InsertDesc(Sorted(SubSeq(s, 1, Len(s) - 1)), s[Len(s)])

----------------------------------------------------------------------------
Init ==
    /\ n \in 0..MaxPapers
    /\ clientFails = 0
    /\ reply = None
    /\ cache = [i \in Papers |-> None]
    /\ calls = [i \in Papers |-> 0]
    /\ stores = [i \in Papers |-> 0]
    /\ ret = [i \in Papers |-> None]
    /\ cur = 1
    /\ pc = "loop"
    /\ site = "none"
    /\ subj = 0
    /\ attempt = 0
    /\ err = "none"
    /\ interesting = <<>>
    /\ fileOpen = FALSE
    /\ out = <<>>
    /\ sec = 0
    /\ sorted_papers = <<>>
    /\ k = 0

\* An uncaught exception ends the run.
Abort(e) == pc' = "aborted" /\ err' = e /\ attempt' = 0

\* Where a read of _interest_analysis continues once the accessor returns.
Continuation(s) ==
    CASE s = "score"   -> "compare"
      [] s = "tag"     -> "append"
      [] s = "sortkey" -> "section"
      [] s = "html"    -> "paper"

\* A read of the property _interest_analysis of paper p begins.
BeginRead(p, s) == pc' = "analysis" /\ site' = s /\ subj' = p /\ attempt' = 1

\* tenacity gives up: RetryError leaves the accessor and nothing catches it.
RetryExhaustedSkip ==
    /\ pc' = "loop" /\ err' = "RetryError" /\ attempt' = 0
    /\ cur' = cur + 1

RetryExhausted ==
    /\ Abort("RetryError")
    /\ cur' = cur

\* An attempt raised: retry unless the attempts are used up.
Failed ==
    IF Stop(attempt)
    THEN RetryExhausted
    ELSE attempt' = attempt + 1 /\ UNCHANGED <<pc, err, cur>>

\* The accessor returns v to the read in progress.
Return(v) ==
    /\ ret' = [ret EXCEPT ![subj] = v]
    /\ pc' = Continuation(site)
    /\ attempt' = 0
    /\ UNCHANGED <<err, cur>>

\* for paper in tqdm(papers): if paper.interest_score ...
NextPaper ==
    /\ pc = "loop" /\ cur <= n
    /\ \E f \in 0..MaxAttempts : clientFails' = f
    /\ reply' = None
    /\ BeginRead(cur, "score")
    /\ UNCHANGED <<n, cache, calls, stores, ret, cur, err, interesting,
                   fileOpen, out, sec, sorted_papers, k>>

\* One attempt of _interest_analysis with an empty cache: the model call.
AttemptCall ==
    /\ pc = "analysis" /\ NeedsCall(subj)
    /\ \E r \in ClientResponse(calls[subj] + 1) :
         /\ calls' = [calls EXCEPT ![subj] = @ + 1]
         /\ reply' = r
         /\ IF r.kind \in {"transport", "garbage"}
            THEN /\ UNCHANGED <<cache, stores, ret>>
                 /\ Failed
            ELSE LET v == Parse(r) IN
                 /\ cache' = [cache EXCEPT ![subj] = v]
                 /\ stores' = [stores EXCEPT ![subj] = IF v = None THEN @ ELSE @ + 1]
                 /\ IF Validates(v)
                    THEN Return(v)
                    ELSE Failed /\ UNCHANGED ret
    /\ UNCHANGED <<n, clientFails, site, subj, interesting, fileOpen, out,
                   sec, sorted_papers, k>>

\* One attempt of _interest_analysis with a filled cache: return it.
AttemptCached ==
    /\ pc = "analysis" /\ ~NeedsCall(subj)
    /\ Return(cache[subj])
    /\ UNCHANGED <<n, reply, clientFails, cache, calls, stores, site, subj,
                   interesting, fileOpen, out, sec, sorted_papers, k>>

\* interest_score: _interest_analysis["score"], then the test > 3.
Compare ==
    /\ pc = "compare"
    /\ IF "score" \notin ret[cur].has
       THEN Abort("KeyError") /\ UNCHANGED <<cur, site, subj, clientFails>>
       ELSE IF Passes(ret[cur].score)
            THEN BeginRead(cur, "tag") /\ UNCHANGED <<cur, err, clientFails>>
            ELSE /\ pc' = "loop" /\ cur' = cur + 1 /\ clientFails' = 0
                 /\ UNCHANGED <<err, site, subj, attempt>>
    /\ UNCHANGED <<n, reply, cache, calls, stores, ret, interesting, fileOpen, out,
                   sec, sorted_papers, k>>

\* interesting[paper.interest_tag].append(paper)
AppendPaper ==
    /\ pc = "append"
    /\ IF "tag" \notin ret[cur].has
       THEN Abort("KeyError") /\ UNCHANGED <<cur, interesting, clientFails>>
       ELSE /\ interesting' = DictAppend(interesting, ret[cur].tag, cur)
            /\ pc' = "loop" /\ cur' = cur + 1 /\ clientFails' = 0
            /\ UNCHANGED <<err, attempt>>
    /\ UNCHANGED <<n, reply, cache, calls, stores, ret, site, subj, fileOpen, out,
                   sec, sorted_papers, k>>

Item(kd, t, p, s) == [kind |-> kd, tag |-> t, paper |-> p, score |-> s]

\* html_report: open(filename, "w") and the page header.
OpenReport ==
    /\ pc = "loop" /\ cur > n
    /\ fileOpen' = TRUE
    /\ out' = <<Item("header", "", 0, 0)>>
    /\ pc' = "section" /\ sec' = 1
    /\ UNCHANGED <<n, reply, clientFails, cache, calls, stores, ret, cur, site, subj,
                   attempt, err, interesting, sorted_papers, k>>

\* The first paper of s whose cache is empty, 0 if there is none.
FirstUncached(s) ==
    IF \E j \in 1..Len(s) : NeedsCall(s[j])
    THEN s[CHOOSE j \in 1..Len(s) :
               NeedsCall(s[j]) /\ \A h \in 1..(j - 1) : ~NeedsCall(s[h])]
    ELSE 0

\* for tag, papers in interesting.items(): sort, then the section header.
Section ==
    /\ pc = "section" /\ sec <= Len(interesting)
    /\ LET g == interesting[sec] IN
       IF FirstUncached(g.papers) # 0
       THEN /\ BeginRead(FirstUncached(g.papers), "sortkey")
            /\ UNCHANGED <<err, out, sorted_papers, k>>
       ELSE IF \E j \in 1..Len(g.papers) : "score" \notin cache[g.papers[j]].has
            THEN Abort("KeyError") /\ UNCHANGED <<site, subj, out, sorted_papers, k>>
            ELSE /\ sorted_papers' = Sorted(g.papers)
                 /\ out' = Append(out, Item("h2", Capitalize(g.tag), 0, 0))
                 /\ pc' = "paper" /\ k' = 1
                 /\ UNCHANGED <<err, site, subj, attempt>>
    /\ UNCHANGED <<n, reply, clientFails, cache, calls, stores, ret, cur, interesting,
                   fileOpen, sec>>

\* f.write(paper.to_html()): reads score, tag and justification.
WritePaper ==
    /\ pc = "paper" /\ k <= Len(sorted_papers)
    /\ LET p == sorted_papers[k] IN
       IF NeedsCall(p)
       THEN BeginRead(p, "html") /\ UNCHANGED <<err, out, k>>
       ELSE IF ~(AllKeys \subseteq cache[p].has)
            THEN Abort("KeyError") /\ UNCHANGED <<site, subj, out, k>>
            ELSE /\ out' = Append(out, Item("paper", interesting[sec].tag, p,
                                             cache[p].score))
                 /\ k' = k + 1
                 /\ UNCHANGED <<pc, err, site, subj, attempt>>
    /\ UNCHANGED <<n, reply, clientFails, cache, calls, stores, ret, cur, interesting,
                   fileOpen, sec, sorted_papers>>

\* f.write("</div>") and the next section.
CloseSection ==
    /\ pc = "paper" /\ k > Len(sorted_papers)
    /\ out' = Append(out, Item("enddiv", interesting[sec].tag, 0, 0))
    /\ pc' = "section" /\ sec' = sec + 1
    /\ UNCHANGED <<n, reply, clientFails, cache, calls, stores, ret, cur, site, subj,
                   attempt, err, interesting, fileOpen, sorted_papers, k>>

\* The timestamp, the closing tags, and the file is closed.
Finish ==
    /\ pc = "section" /\ sec > Len(interesting)
    /\ out' = Append(out, Item("footer", "", 0, 0))
    /\ pc' = "done"
    /\ UNCHANGED <<n, reply, clientFails, cache, calls, stores, ret, cur, site, subj,
                   attempt, err, interesting, fileOpen, sec, sorted_papers, k>>

Next ==
    \/ NextPaper
    \/ AttemptCall
    \/ AttemptCached
    \/ Compare
    \/ AppendPaper
    \/ OpenReport
    \/ Section
    \/ WritePaper
    \/ CloseSection
    \/ Finish

Spec == Init /\ [][Next]_vars

----------------------------------------------------------------------------
(* Properties.                                                             *)

\* How many times paper i occurs in the group at position j of interesting.
Occ(i, j) ==
    Cardinality({h \in 1..Len(interesting[j].papers) : interesting[j].papers[h] = i})

\* The aggregation loop has run to its end.
LoopFinished == cur > n

\* C1: after the aggregation loop has finished, every paper whose judged
\* score is greater than 3 occurs exactly once in the group keyed by its own
\* judged tag and in no other group, and every paper whose judged score is 3
\* or less occurs in no group.
C1_Grouping ==
    LoopFinished =>
      /\ \A j, h \in 1..Len(interesting) :
            j # h => interesting[j].tag # interesting[h].tag
      /\ \A i \in 1..n :
            /\ cache[i].score > 3 =>
                 \E j \in 1..Len(interesting) :
                    /\ interesting[j].tag = cache[i].tag
                    /\ Occ(i, j) = 1
                    /\ \A h \in 1..Len(interesting) : h # j => Occ(i, h) = 0
            /\ cache[i].score <= 3 =>
                 \A j \in 1..Len(interesting) : Occ(i, j) = 0

\* A two-paper feed, one paper kept in its tag's group and one left out.
C1_Witness ==
    /\ LoopFinished /\ n = 2
    /\ cache[1].score = 5 /\ cache[2].score = 3
    /\ interesting = <<[tag |-> cache[1].tag, papers |-> <<1>>]>>

\* C2: in the written report, the papers of one tag group appear in
\* non-increasing order of score, and papers of one group with equal scores
\* appear in feed order.
C2_RenderedOrder ==
    \A a, b \in 1..Len(out) :
       (/\ a < b
        /\ out[a].kind = "paper" /\ out[b].kind = "paper"
        /\ out[a].tag = out[b].tag)
       => /\ out[a].score >= out[b].score
          /\ out[a].score = out[b].score => out[a].paper < out[b].paper

\* A finished report whose one section lists the later feed entry first.
C2_Witness ==
    /\ pc = "done"
    /\ \E a \in 1..Len(out) :
          /\ a < Len(out)
          /\ out[a].kind = "paper" /\ out[a].paper = 2
          /\ out[a + 1].kind = "paper" /\ out[a + 1].paper = 1

\* C3: when the client fails on its first N < 5 calls (by a transport error,
\* by unparseable text or by an object that lacks a required key) and then
\* answers with a well-formed response, the accessor returns exactly that
\* response and the client has been called exactly N + 1 times.
C3_RetryThenSuccess ==
    (pc = "compare" /\ clientFails < MaxAttempts /\ reply \notin OutOfRangeResponses) =>
       /\ reply \in WellFormedResponses
       /\ ret[cur] = reply
       /\ calls[cur] = clientFails + 1

\* C4: when the client fails on every call (by a transport error, by
\* unparseable text or by an object that lacks a required key such as
\* {"score": 5}), the accessor never returns a judgment for the paper, and
\* the error is raised after exactly 5 calls.
C4_AlwaysFails ==
    (subj # 0 /\ clientFails = MaxAttempts /\ reply \notin OutOfRangeResponses) =>
       /\ ret[subj] = None
       /\ err = "RetryError" => calls[subj] = 5

\* C5: once the accessor has returned a judgment for a paper, no later step
\* calls the model for that paper or changes its cache, every later read
\* returns that same judgment, and the paper's cache was filled by at most
\* one model call.
C5_Memoized ==
    /\ [](\A i \in Papers : ret[i] # None => stores[i] <= 1 /\ ret[i] = cache[i])
    /\ [][\A i \in Papers : ret[i] # None =>
             /\ calls'[i] = calls[i]
             /\ cache'[i] = cache[i]
             /\ ret'[i] = ret[i]]_vars

\* A paper judged after a failed call, then read again by the tag access
\* and by the renderer.
C5_Witness ==
    \E a \in 1..Len(out) :
       /\ out[a].kind = "paper"
       /\ calls[out[a].paper] = 2
       /\ stores[out[a].paper] = 1

\* C6: a paper's cache is empty or holds an object with all three keys, and
\* the accessor never returns an object that lacks one.
C6_CacheComplete ==
    \A i \in Papers :
       /\ cache[i] = None \/ AllKeys \subseteq cache[i].has
       /\ ret[i] = None \/ AllKeys \subseteq ret[i].has

\* C7: no paper is filtered, grouped or written with a score outside 1..5.
C7_ScoreInRange ==
    /\ \A i \in Papers :
          (i < cur /\ "score" \in cache[i].has) => cache[i].score \in 1..5
    /\ \A j \in 1..Len(interesting) : \A h \in 1..Len(interesting[j].papers) :
          cache[interesting[j].papers[h]].score \in 1..5
    /\ \A a \in 1..Len(out) : out[a].kind = "paper" => out[a].score \in 1..5

\* C8: when a classification fails after retry exhaustion the run is over:
\* the program has stopped, no later paper has been sent to the model, and
\* no output file exists.
C8_AbortsRun ==
    err = "RetryError" =>
       /\ pc = "aborted"
       /\ ~fileOpen /\ out = <<>>
       /\ \A j \in Papers : j > cur => calls[j] = 0 /\ cache[j] = None

\* The second paper exhausts its retries after the first one was grouped.
C8_Witness ==
    /\ err = "RetryError" /\ cur = 2
    /\ Len(interesting) = 1

RECURSIVE SumCalls(_)
SumCalls(i) == IF i = 0 THEN 0 ELSE calls[i] + SumCalls(i - 1)

\* C9: every paper has its own budget of 5 attempts: no paper is sent to the
\* model more than 5 times, a paper is given up only after its own 5 calls,
\* and a run makes at most 5 calls per paper of the feed.
C9_BudgetPerPaper ==
    /\ \A i \in Papers : calls[i] <= 5
    /\ err = "RetryError" => calls[subj] = 5
    /\ SumCalls(MaxPapers) <= 5 * n

\* Both papers are classified on their fifth attempt.
C9_Witness ==
    /\ calls[1] = 5 /\ ret[1] \in WellFormedResponses
    /\ calls[2] = 5 /\ ret[2] \in WellFormedResponses

\* C10: once the output file is open no step calls the model or writes a
\* cache, every model call is made by the aggregation loop's score read,
\* and every grouped paper has a filled cache from then on.
C10_RenderFromCache ==
    /\ [](fileOpen =>
            \A j \in 1..Len(interesting) : \A h \in 1..Len(interesting[j].papers) :
               cache[interesting[j].papers[h]] # None)
    /\ [][(calls' # calls \/ cache' # cache) =>
             ~fileOpen /\ pc = "analysis" /\ site = "score"]_vars

\* A finished report with two sections.
C10_Witness ==
    /\ pc = "done"
    /\ Len(interesting) = 2
    /\ \E a \in 1..Len(out) : out[a].kind = "paper" /\ out[a].paper = 2

====
